---- MODULE Spec2Model ----
(***************************************************************************)
(* Model of src/server.js: an Express application with two JSON routes     *)
(* (POST /api/contact, GET /api/submissions), a welcome route, a           *)
(* monitoring middleware, an error-handling middleware, and three external *)
(* services (MySQL pool, S3 client, CloudWatch client).                    *)
(*                                                                         *)
(* Two facts of the source shape the whole model:                          *)
(*  - every callback names its request parameter `_req` (lines 87, 131,    *)
(*    152, 157, 206) while the bodies read `req` (lines 102, 113, 159,     *)
(*    166-172).  No binding of `req` is in scope, so each such read throws *)
(*    ReferenceError("req is not defined").  In the POST handler the throw *)
(*    happens at line 159, inside the try, so lines 161-182 (validation,   *)
(*    upload, insert, success response) never execute; in the finish       *)
(*    listener it happens while the argument of putMetricData is built     *)
(*    (line 102), so the call of line 93 is never made.                    *)
(*  - the error-handling middleware is registered (line 131) before the    *)
(*    routes (lines 152-206).  Express looks for an error handler only     *)
(*    among the layers after the one that called next(err).                *)
(***************************************************************************)
EXTENDS Naturals, Sequences, FiniteSets

\* ---------------------------------------------------------------- bounds
\* Requests in flight at once.  Handlers of different requests share only the
\* submissions table, which none of them writes (the INSERT is unreachable).
NumReqs == 1

\* Rows present in the submissions table.
MaxRows == 2

\* Distinct created_at timestamps.
MaxTime == 2

Reqs == 1..NumReqs

\* ---------------------------------------------------------------- inputs
\* A falsy (missing or empty) form field is "", a present one "Jane".
Strs == {"", "Jane"}

\* File part of a multipart body: none, one within multer's 5 MiB limit
\* (line 80), one above it.
Files == {"none", "img", "big"}

\* line 161: !name || !email || !message
MissingRequired(i) == i.name = "" \/ i.email = "" \/ i.message = ""

\* Requests a client can send.  ctype is the body's content type: "none"
\* (no body), "json", "badjson" (application/json that does not parse),
\* "multipart".
Contact(c, n, e, m, f) ==
    [route |-> "POST /api/contact", ctype |-> c, name |-> n, email |-> e,
     message |-> m, file |-> f]

PlainInput(rt) ==
    [route |-> rt, ctype |-> "none", name |-> "", email |-> "",
     message |-> "", file |-> "none"]

\* Posts to /api/contact with at most one field missing: JSON bodies (no file
\* part; a body that does not parse is taken with all fields meant present),
\* form bodies with each kind of file part; and the three GETs.
Inputs ==
    { i \in { Contact(c, n, e, m, f) :
                c \in {"json", "badjson", "multipart"}, n \in Strs, e \in Strs,
                m \in Strs, f \in Files } :
        /\ Cardinality({ k \in {"name", "email", "message"} : i[k] = "" }) <= 1
        /\ (i.ctype # "multipart") => i.file = "none"
        /\ (i.ctype = "badjson") => ~MissingRequired(i) }
    \cup { PlainInput("GET /"), PlainInput("GET /api/submissions"),
           PlainInput("GET /missing") }

NoInput == PlainInput("")

\* -------------------------------------------------------- submissions table
\* The table is owned by the database: id is the auto-increment primary key
\* (rows are never deleted, so the ids in use are 1..n); created_at is set by
\* the engine and need not follow the order of the ids.
Tables ==
    UNION { { { [id |-> k, created_at |-> f[k]] : k \in 1..n } :
                f \in [1..n -> 1..MaxTime] } :
            n \in 0..MaxRows }

Perms(T) ==
    { s \in [1..Cardinality(T) -> T] :
        \A i, j \in 1..Cardinality(T) : i # j => s[i] # s[j] }

\* The query with the direction of the ordering reversed.
OrderByCreatedAtAsc(T) ==
    { s \in Perms(T) :
        \A i, j \in 1..Cardinality(T) :
            i < j => s[i].created_at <= s[j].created_at }

\* line 208: SELECT * FROM submissions ORDER BY created_at DESC.  Rows with
\* equal created_at come back in an order the engine chooses.
OrderByCreatedAtDesc(T) ==
    { s \in Perms(T) :
        \A i, j \in 1..Cardinality(T) :
            i < j => s[i].created_at >= s[j].created_at }

\* Messages of a failed pool.query.
DbErrors == {"connect ECONNREFUSED", "Table 'submissions' doesn't exist"}

\* ------------------------------------------------------------ Express stack
\* Layers in registration order (lines 10, 11, 87, 131, 152, 157, 206).
Stack ==
    << "cors", "json", "monitor", "errorHandler", "root", "contact",
       "submissions" >>

IsErrorLayer(l) == l = "errorHandler"

LayerIndex(l) == CHOOSE k \in 1..Len(Stack) : Stack[k] = l

\* Express router: next(err) from layer `l` runs the first error-handling
\* layer registered after l; with none left, the built-in final handler.
ErrorTarget(l) ==
    LET later == { k \in (LayerIndex(l) + 1)..Len(Stack) : IsErrorLayer(Stack[k]) }
    IN  IF later = {} THEN "final"
        ELSE Stack[CHOOSE k \in later : \A k2 \in later : k <= k2]

\* Route layer matching a request, "final" (404) when none does.
RouteOf(i) ==
    CASE i.route = "GET /" -> "root"
      [] i.route = "POST /api/contact" -> "contact"
      [] i.route = "GET /api/submissions" -> "submissions"
      [] OTHER -> "final"

\* ------------------------------------------------------------------ values
Body(type, text, rows) == [type |-> type, text |-> text, rows |-> rows]

NoBody == Body("none", "", << >>)

Ev(op, a, b) == [op |-> op, a |-> a, b |-> b]

\* lines 133-148, 185-200, 211-226: one Errors datum, value 1, ErrorType = label
ErrorMetric(label) == Ev("putMetricData", "Errors", label)

\* line 142: err.name || 'UnknownError'
ErrLabel(name) == IF name = "" THEN "UnknownError" ELSE name

Err(name, message) == [name |-> name, message |-> message]

NoErr == Err("", "")

\* reading the unbound identifier `req`
ReferenceError == Err("ReferenceError", "req is not defined")

VARIABLES
    submissions,  \* rows of the submissions table
    input,        \* input[r]: the request as sent by the client
    pc,           \* pc[r]: where request r is suspended
    res,          \* res[r]: the response object (times sent, status, body)
    listener,     \* listener[r]: a 'finish' listener is registered (line 90)
    err,          \* err[r]: the error the request's catch block holds
    detached,     \* detached[r]: an un-awaited putMetricData promise is pending
    trace         \* trace[r]: external calls and events of r, in order

vars == << submissions, input, pc, res, listener, err, detached, trace >>

Init ==
    /\ submissions \in Tables
    /\ input = [r \in Reqs |-> NoInput]
    /\ pc = [r \in Reqs |-> "new"]
    /\ res = [r \in Reqs |-> [sent |-> 0, status |-> 0, body |-> NoBody]]
    /\ listener = [r \in Reqs |-> FALSE]
    /\ err = [r \in Reqs |-> NoErr]
    /\ detached = [r \in Reqs |-> FALSE]
    /\ trace = [r \in Reqs |-> << >>]


\* ------------------------------------------------------ handlers (pure part)
\* What a synchronous run of handler code leaves behind: the place where the
\* request is suspended next, the response object, the error it holds, whether
\* an un-awaited putMetricData promise is pending, and the events it produced
\* (calls to the external services and the response; console output is not
\* recorded).
Out(p, rs, e, d, evs) ==
    [pc |-> p, res |-> rs, err |-> e, detached |-> d, evs |-> evs]

\* res.status(s).json(b) / res.send(b): the response is written and ended.
Sent(rs, status, body) ==
    [sent |-> rs.sent + 1, status |-> status, body |-> body]

Response == Ev("response", "", "")

\* lines 152-154
Welcome(rs) ==
    Out("responded",
        Sent(rs, 200, Body("text", "Welcome to the Contact System API!", << >>)),
        NoErr, FALSE, << Response >>)

\* lines 131-151: log, putMetricData(...).catch(console.error) without await,
\* then the generic 500 body.
GlobalErrorHandler(rs, e) ==
    Out("responded",
        Sent(rs, 500, Body("json.error", "Internal Server Error", << >>)),
        e, TRUE, << ErrorMetric(ErrLabel(e.name)), Response >>)

\* Express's built-in final handler: an HTML page, 404 when no route matched,
\* 500 for an error without a status; no metric, no JSON.
FinalHandler(rs, e) ==
    IF e = NoErr
    THEN Out("responded", Sent(rs, 404, Body("html", "Cannot GET", << >>)),
             e, FALSE, << Response >>)
    ELSE Out("responded", Sent(rs, 500, Body("html", e.name, << >>)),
             e, FALSE, << Response >>)

\* next(err) called by layer l.
HandleError(l, rs, e) ==
    LET o == IF ErrorTarget(l) = "errorHandler"
             THEN GlobalErrorHandler(rs, e)
             ELSE FinalHandler(rs, e)
    IN  [o EXCEPT !.evs = << Ev("next(err)", e.name, l) >> \o @]

\* lines 157-200 up to the first suspension: `req.body` (line 159) throws
\* ReferenceError inside the try; the catch logs it (line 184) and awaits
\* putMetricData for ContactSubmissionError (lines 185-200).
ContactHandler(rs) ==
    Out("contactCatch", rs, ReferenceError, FALSE,
        << ErrorMetric("ContactSubmissionError") >>)

\* line 201, reached once the awaited putMetricData settled: the .catch of
\* line 200 turns a rejection into a log line, so both outcomes continue here.
ContactCatch(rs, e) ==
    Out("responded", Sent(rs, 500, Body("json.error", e.message, << >>)),
        e, FALSE, << Response >>)

\* lines 206-208 up to the first suspension: pool.query is called.
SubmissionsHandler(rs) ==
    Out("query", rs, NoErr, FALSE, << Ev("query", "submissions", "") >>)

\* The list route answering a second time after the try block.
SubmissionsOkTwice(rs, rows) ==
    Out("responded",
        Sent(Sent(rs, 200, Body("json.rows", "", rows)), 200,
             Body("json.rows", "", rows)),
        NoErr, FALSE, << Response, Response >>)

\* line 209
SubmissionsOk(rs, rows) ==
    Out("responded", Sent(rs, 200, Body("json.rows", "", rows)),
        NoErr, FALSE, << Response >>)

\* The list route's catch reporting under the create route's label.
SubmissionsFailedMislabelled(rs, e) ==
    Out("subsCatch", rs, e, FALSE,
        << Ev("query.rejected", e.message, ""),
           ErrorMetric("ContactSubmissionError") >>)

\* lines 210-226: the query rejected; the catch awaits putMetricData for
\* FetchSubmissionsError.
SubmissionsFailed(rs, e) ==
    Out("subsCatch", rs, e, FALSE,
        << Ev("query.rejected", e.message, ""),
           ErrorMetric("FetchSubmissionsError") >>)

\* line 227, reached once the awaited putMetricData settled (the .catch of
\* line 226 swallows a rejection).
SubmissionsCatch(rs, e) ==
    Out("responded", Sent(rs, 500, Body("json.error", e.message, << >>)),
        e, FALSE, << Response >>)

\* The router, entered after the monitoring middleware called next().
\* upload.single('image') (line 157) parses a multipart body asynchronously
\* and calls next() at once for any other body.
Route(i, rs) ==
    CASE RouteOf(i) = "root" -> Welcome(rs)
      [] RouteOf(i) = "submissions" -> SubmissionsHandler(rs)
      [] RouteOf(i) = "contact" ->
            IF i.ctype = "multipart"
            THEN Out("multer", rs, NoErr, FALSE, << >>)
            ELSE ContactHandler(rs)
      [] OTHER -> FinalHandler(rs, NoErr)

\* lines 90-123: the finish listener.  Building the argument of putMetricData
\* reads `req.path` (line 102) and throws; the catch of line 120 logs it.  No
\* call reaches the metrics sink: the listener adds no event.
FinishListener == << >>

\* ----------------------------------------------------------------- actions
Apply(r, i, lis, o) ==
    /\ input' = [input EXCEPT ![r] = i]
    /\ listener' = [listener EXCEPT ![r] = lis]
    /\ pc' = [pc EXCEPT ![r] = o.pc]
    /\ res' = [res EXCEPT ![r] = o.res]
    /\ err' = [err EXCEPT ![r] = o.err]
    /\ detached' = [detached EXCEPT ![r] = o.detached]
    /\ trace' = [trace EXCEPT ![r] = @ \o o.evs]
    /\ UNCHANGED submissions

\* A request arrives: cors (line 10) passes it on; express.json (line 11)
\* reads a JSON body asynchronously and passes anything else on at once to the
\* monitoring middleware (lines 87-126), which registers the finish listener
\* and calls next().
Arrive(r) ==
    /\ pc[r] = "new"
    /\ \E i \in Inputs :
        IF i.ctype \in {"json", "badjson"}
        THEN Apply(r, i, FALSE, Out("json", res[r], NoErr, FALSE, << >>))
        ELSE Apply(r, i, TRUE, Route(i, res[r]))

\* express.json finished reading the body: next(err) on a parse failure,
\* otherwise on to the monitoring middleware and the router.
JsonParsed(r) ==
    /\ pc[r] = "json"
    /\ IF input[r].ctype = "badjson"
       THEN Apply(r, input[r], FALSE,
                  HandleError("json", res[r], Err("SyntaxError", "Unexpected token")))
       ELSE Apply(r, input[r], TRUE, Route(input[r], res[r]))

\* multer finished parsing the multipart body: next(err) when the file
\* exceeds limits.fileSize (line 80), otherwise the route handler runs.
MulterParsed(r) ==
    /\ pc[r] = "multer"
    /\ IF input[r].file = "big"
       THEN Apply(r, input[r], listener[r],
                  HandleError("contact", res[r], Err("MulterError", "File too large")))
       ELSE Apply(r, input[r], listener[r], ContactHandler(res[r]))

\* The putMetricData awaited at line 185 settled, resolved or rejected.
ContactCatchResume(r) ==
    /\ pc[r] = "contactCatch"
    /\ Apply(r, input[r], listener[r], ContactCatch(res[r], err[r]))

\* pool.query (line 208) resolved with the ordered rows.
QueryResolved(r) ==
    /\ pc[r] = "query"
    /\ \E rows \in OrderByCreatedAtDesc(submissions) :
        Apply(r, input[r], listener[r], SubmissionsOk(res[r], rows))

\* pool.query (line 208) rejected.
QueryRejected(r) ==
    /\ pc[r] = "query"
    /\ \E m \in DbErrors :
        Apply(r, input[r], listener[r], SubmissionsFailed(res[r], Err("Error", m)))

\* The putMetricData awaited at line 211 settled, resolved or rejected.
SubmissionsCatchResume(r) ==
    /\ pc[r] = "subsCatch"
    /\ Apply(r, input[r], listener[r], SubmissionsCatch(res[r], err[r]))

\* The un-awaited putMetricData of the error handler (line 133) settled; a
\* rejection only goes to console.error (line 148).
DetachedSettle(r) ==
    /\ detached[r]
    /\ detached' = [detached EXCEPT ![r] = FALSE]
    /\ UNCHANGED << submissions, input, pc, res, listener, err, trace >>

\* The response was flushed: 'finish' fires and the listener, if one was
\* registered, runs.
Finish(r) ==
    /\ pc[r] = "responded"
    /\ pc' = [pc EXCEPT ![r] = "closed"]
    /\ trace' = [trace EXCEPT ![r] =
           @ \o (IF listener[r] THEN FinishListener ELSE << >>)]
    /\ UNCHANGED << submissions, input, res, listener, err, detached >>

Next ==
    \E r \in Reqs :
        \/ Arrive(r)
        \/ JsonParsed(r)
        \/ MulterParsed(r)
        \/ ContactCatchResume(r)
        \/ QueryResolved(r)
        \/ QueryRejected(r)
        \/ SubmissionsCatchResume(r)
        \/ DetachedSettle(r)
        \/ Finish(r)

Spec == Init /\ [][Next]_vars


\* ------------------------------------------------------------------ claims
Calls(r, op) == { k \in 1..Len(trace[r]) : trace[r][k].op = op }

Metrics(r, name) ==
    { k \in Calls(r, "putMetricData") : trace[r][k].a = name }

Responded(r) == pc[r] \in {"responded", "closed"}

IsContact(r) == input[r].route = "POST /api/contact"

IsList(r) == input[r].route = "GET /api/submissions"

\* req.path of a request
PathOf(i) ==
    CASE i.route = "GET /" -> "/"
      [] i.route = "POST /api/contact" -> "/api/contact"
      [] i.route = "GET /api/submissions" -> "/api/submissions"
      [] OTHER -> "/missing"

\* line 174: the public URL of an uploaded object, from bucket, region and key
ImageUrl(key) ==
    << "https://", "AWS_S3_BUCKET", ".s3.", "AWS_REGION", ".amazonaws.com/", key >>

\* The route's handler was entered (no middleware before it passed an error on).
Handled(r) ==
    /\ IsContact(r) \/ IsList(r)
    /\ pc[r] \notin {"new", "json", "multer"}
    /\ Calls(r, "next(err)") = {}

\* C1: a POST /api/contact with name, email or message missing is answered
\* 400 with the fixed validation message, makes no upload and no insert, and
\* emits no error-count metric.
C1_ValidationRejected ==
    \A r \in Reqs :
        (IsContact(r) /\ MissingRequired(input[r]) /\ Responded(r)) =>
            /\ res[r].status = 400
            /\ res[r].body =
                   Body("json.error", "Name, email, and message are required.", << >>)
            /\ Calls(r, "upload") = {}
            /\ Calls(r, "insert") = {}
            /\ Metrics(r, "Errors") = {}

\* C2: every request whose response was flushed has produced exactly one
\* RequestDuration and one RequestCount metric, dimensioned by its path and
\* emitted after the response.
C2_RequestMetrics ==
    \A r \in Reqs :
        pc[r] = "closed" =>
            /\ Cardinality(Metrics(r, "RequestDuration")) = 1
            /\ Cardinality(Metrics(r, "RequestCount")) = 1
            /\ \A k \in Metrics(r, "RequestDuration") \cup Metrics(r, "RequestCount") :
                   /\ trace[r][k].b = PathOf(input[r])
                   /\ \E j \in Calls(r, "response") : j < k

\* C3: a POST /api/contact with all three fields and an attachment, whose
\* upload and insert did not fail, made exactly one upload and then exactly one
\* insert, and is answered 200 with the imageUrl built from bucket, region and
\* key, which is also the image_url of the inserted row.
C3_UploadThenInsert ==
    \A r \in Reqs :
        ( /\ IsContact(r)
          /\ ~MissingRequired(input[r])
          /\ input[r].file = "img"
          /\ Responded(r)
          /\ Calls(r, "upload.rejected") = {}
          /\ Calls(r, "insert.rejected") = {} ) =>
            /\ res[r].status = 200
            /\ Cardinality(Calls(r, "upload")) = 1
            /\ Cardinality(Calls(r, "insert")) = 1
            /\ \A u \in Calls(r, "upload") : \A i \in Calls(r, "insert") :
                   /\ u < i
                   /\ res[r].body.text = ImageUrl(trace[r][u].a)
                   /\ trace[r][i].b = ImageUrl(trace[r][u].a)

\* C4: a request whose insert or whose query failed is answered 500 with a
\* body carrying the failure's message, and emitted exactly one error-count
\* metric, labelled ContactSubmissionError for the insert and
\* FetchSubmissionsError for the query.
C4_StoreFailure ==
    \A r \in Reqs :
        \A op \in {"insert.rejected", "query.rejected"} :
            \A f \in Calls(r, op) :
                /\ Cardinality(Metrics(r, "Errors")) = 1
                /\ \A k \in Metrics(r, "Errors") :
                       /\ f < k
                       /\ trace[r][k].b =
                              (IF op = "insert.rejected" THEN "ContactSubmissionError"
                               ELSE "FetchSubmissionsError")
                /\ Responded(r) =>
                       /\ res[r].status = 500
                       /\ res[r].body = Body("json.error", trace[r][f].a, << >>)

C4_Witness ==
    \E r \in Reqs :
        /\ IsList(r)
        /\ pc[r] = "closed"
        /\ Calls(r, "query.rejected") # {}
        /\ res[r].status = 500

\* C6: the response never waits on telemetry: no request has a putMetricData
\* call outstanding while its response is still unsent.
C6_ResponseNeverWaits ==
    \A r \in Reqs :
        (pc[r] \in {"contactCatch", "subsCatch"} \/ detached[r]) =>
            res[r].sent = 1

\* C8: a 200 answer of GET /api/submissions holds every row of the table, each
\* once, by created_at descending whatever the order of their ids; a row newer
\* than all others comes first.
C8_ListOrdered ==
    \A r \in Reqs :
        (IsList(r) /\ Responded(r) /\ res[r].status = 200) =>
            LET rows == res[r].body.rows IN
            /\ res[r].body.type = "json.rows"
            /\ Len(rows) = Cardinality(submissions)
            /\ { rows[k] : k \in 1..Len(rows) } = submissions
            /\ \A j, k \in 1..Len(rows) :
                   j < k => rows[j].created_at >= rows[k].created_at
            /\ \A x \in submissions :
                   (\A y \in submissions \ {x} : y.created_at < x.created_at) =>
                       rows[1] = x

C8_Witness ==
    \E r \in Reqs :
        /\ IsList(r)
        /\ pc[r] = "closed"
        /\ res[r].status = 200
        /\ Len(res[r].body.rows) = 2
        /\ res[r].body.rows[1].id < res[r].body.rows[2].id
        /\ res[r].body.rows[1].created_at > res[r].body.rows[2].created_at

\* C9: an error passed on by a route or its middleware is answered by the
\* error-handling middleware: 500 {error: "Internal Server Error"} and one
\* error-count metric labelled by the error's name (UnknownError without one).
C9_ErrorsReachHandler ==
    \A r \in Reqs :
        \A n \in Calls(r, "next(err)") :
            Responded(r) =>
                /\ res[r].status = 500
                /\ res[r].body = Body("json.error", "Internal Server Error", << >>)
                /\ Cardinality(Metrics(r, "Errors")) = 1
                /\ \A k \in Metrics(r, "Errors") :
                       trace[r][k].b = ErrLabel(trace[r][n].a)

\* C10: a request handled by POST /api/contact or GET /api/submissions never
\* sends more than one response and has sent exactly one when its handler is
\* through; it makes at most one upload and at most one insert or query, none
\* of them after the response.
C10_OneResponse ==
    \A r \in Reqs :
        Handled(r) =>
            /\ res[r].sent <= 1
            /\ Cardinality(Calls(r, "response")) = res[r].sent
            /\ Responded(r) => res[r].sent = 1
            /\ Cardinality(Calls(r, "upload")) <= 1
            /\ Cardinality(Calls(r, "insert") \cup Calls(r, "query")) <= 1
            /\ \A j \in Calls(r, "response") :
                   \A k \in Calls(r, "upload") \cup Calls(r, "insert")
                            \cup Calls(r, "query") : k < j

C10_Witness ==
    \E r \in Reqs :
        /\ IsList(r)
        /\ Handled(r)
        /\ pc[r] = "closed"
        /\ res[r].sent = 1
        /\ res[r].status = 200
        /\ Cardinality(Calls(r, "query")) = 1

====
